---- MODULE Spec2Model ----
(***************************************************************************)
(* The nutype macro pipeline (nutype_macros/src/lib.rs): the entry point   *)
(* `nutype`, `expand_nutype` (front-end parse and dispatch over the inner  *)
(* type), and the three family pipelines Parse -> Validate -> Generate     *)
(* (`Newtype::expand` for strings, `parse_integer_attrs_and_gen` and       *)
(* `parse_float_attrs_and_gen` for the numeric families).                  *)
(*                                                                         *)
(* The stages themselves (parse_meta, the per-family parse_attributes,     *)
(* the derive-trait validators and the generators) live in modules that are *)
(* not part of lib.rs; they are modelled from the written specification,   *)
(* under the signatures lib.rs calls them with.                            *)
(***************************************************************************)
EXTENDS Naturals, Sequences, FiniteSets

VARIABLES
    type_definition, \* per invocation: the `type_definition` token stream
    attrs,           \* per invocation: the `attrs` token stream
    pc,              \* per invocation: position inside nutype/expand_nutype
    meta,            \* Option<NewtypeMeta>: what parse_meta returned
    pipeline,        \* Option: the family pipeline and primitive T dispatched to
    params,          \* Option<NumberParams>: the values moved into the pipeline
    attributes,      \* Option<Result<Attributes>>: what parse_attributes returned
    traits,          \* Option<Result<HashSet<Trait>>>: what validate returned
    gen_input,       \* Option: the arguments the generator was called with
    result,          \* Option<Result<TokenStream>>: expand_nutype's return value
    emitted,         \* the token streams the macro handed back to the compiler
    ran,             \* the family-pipeline stages run so far, in order
    constructed      \* Option: the last use of the generated type's constructors

vars == <<type_definition, attrs, pc, meta, pipeline, params, attributes,
          traits, gen_input, result, emitted, ran, constructed>>

-----------------------------------------------------------------------------
(* Bounds of the model *)

MaxDerive == 2       \* longest list of requested derive traits
MaxSanitizers == 2   \* longest sanitizer list of a Guard (constructor runs)
MaxValidators == 2   \* longest validator list of a Guard (constructor runs)
MaxValue == 3        \* inner values of the generated wrapper are 0..MaxValue

-----------------------------------------------------------------------------
(* Option and Result *)

None == << >>
Some(x) == << x >>
IsSome(o) == o # << >>
Get(o) == o[1]

Ok(v) == [ok |-> TRUE, val |-> v]
Err(e) == [ok |-> FALSE, err |-> e]

SeqsUpTo(S, n) == UNION {[1..k -> S] : k \in 0..n}

Min(S) == CHOOSE x \in S : \A y \in S : x <= y

Range(s) == {s[k] : k \in 1..Len(s)}

-----------------------------------------------------------------------------
(* Data model *)

IntegerInnerType ==
    {"U8", "U16", "U32", "U64", "U128", "Usize",
     "I8", "I16", "I32", "I64", "I128", "Isize"}

FloatInnerType == {"F32", "F64"}

InnerType ==
    {[kind |-> "String"]}
    \cup {[kind |-> "Integer", tp |-> w] : w \in IntegerInnerType}
    \cup {[kind |-> "Float", tp |-> w] : w \in FloatInnerType}

DeriveTrait == {"Ord", "Default", "Arithmetic"}

SanitizerNames == {"halve", "bump"}

ValidatorNames == {"positive", "even", "finite"}

Values == 0..MaxValue

\* Guard::has_validation(): true iff at least one validator is present.
has_validation(guard) == Len(guard.validators) > 0

Guard(s, v) == [sanitizers |-> s, validators |-> v]

\* syn::Error: a positioned error; the stage that raised it, the reason, the span.
Error(stage, reason, span) == [stage |-> stage, reason |-> reason, span |-> span]

MissingDefault == "missing default"
ValidationPresent == "incompatible with validation present"
FamilyIncompatible == "incompatible with this primitive family"

-----------------------------------------------------------------------------
(* The front end: parse_meta *)

\* The identifier written as the inner type of the declaration, as InnerType.
InnerTypeOfIdent(id) ==
    CASE id = "String" -> [kind |-> "String"]
      [] id = "u8" -> [kind |-> "Integer", tp |-> "U8"]
      [] id = "u16" -> [kind |-> "Integer", tp |-> "U16"]
      [] id = "u32" -> [kind |-> "Integer", tp |-> "U32"]
      [] id = "u64" -> [kind |-> "Integer", tp |-> "U64"]
      [] id = "u128" -> [kind |-> "Integer", tp |-> "U128"]
      [] id = "usize" -> [kind |-> "Integer", tp |-> "Usize"]
      [] id = "i8" -> [kind |-> "Integer", tp |-> "I8"]
      [] id = "i16" -> [kind |-> "Integer", tp |-> "I16"]
      [] id = "i32" -> [kind |-> "Integer", tp |-> "I32"]
      [] id = "i64" -> [kind |-> "Integer", tp |-> "I64"]
      [] id = "i128" -> [kind |-> "Integer", tp |-> "I128"]
      [] id = "isize" -> [kind |-> "Integer", tp |-> "Isize"]
      [] id = "f32" -> [kind |-> "Float", tp |-> "F32"]
      [] id = "f64" -> [kind |-> "Float", tp |-> "F64"]

SupportedIdents ==
    {"String", "u8", "u16", "u32", "u64", "u128", "usize",
     "i8", "i16", "i32", "i64", "i128", "isize", "f32", "f64"}

\* SpannedItem<DeriveTrait>: each requested trait with its source position.
Spanned(derive) == [k \in 1..Len(derive) |-> [item |-> derive[k], span |-> k]]

\* parse_meta(type_definition) -> Result<NewtypeMeta, syn::Error>
parse_meta(td) ==
    IF td.inner_ident \notin SupportedIdents
    THEN Err(Error("parse_meta", "unsupported inner type", 0))
    ELSE Ok([doc_attrs |-> td.doc_attrs,
             type_name |-> td.type_name,
             inner_type |-> InnerTypeOfIdent(td.inner_ident),
             vis |-> td.vis,
             derive_traits |-> Spanned(td.derive)])

-----------------------------------------------------------------------------
(* Attribute Parser: parse_attributes, one per family *)

\* The validators a family's parser recognizes: "finite" exists for floats only.
RecognizedValidators(family) ==
    IF family = "float" THEN ValidatorNames ELSE ValidatorNames \ {"finite"}

\* parse_attributes::<T>(attrs) -> Result<Attributes<Guard>, syn::Error>
parse_attributes(family, T, a) ==
    IF a.unknown
    THEN Err(Error("parse_attributes", "unknown option", 1))
    ELSE IF a.new_unchecked > 1
    THEN Err(Error("parse_attributes", "conflicting options", 2))
    ELSE IF ~(Range(a.validate) \subseteq RecognizedValidators(family))
    THEN Err(Error("parse_attributes", "unknown validator", 3))
    ELSE Ok([guard |-> Guard(a.sanitize, a.validate),
             new_unchecked |-> (a.new_unchecked = 1),
             maybe_default_value |-> a.default])

-----------------------------------------------------------------------------
(* Trait Compatibility Validator: one policy per family.  Each is given    *)
(* what lib.rs passes it: the requested traits, and the Guard (string,     *)
(* float) or only has_validation() (integer).                              *)

\* The first requested trait with a reason against it decides the error;
\* reasons[k] is the reason, if any, against the k-th requested trait.
FirstRejection(derive_traits, reasons) ==
    LET bad == {k \in 1..Len(derive_traits) : reasons[k] # None}
    IN  IF bad = {}
        THEN Ok({derive_traits[k].item : k \in 1..Len(derive_traits)})
        ELSE LET k == Min(bad)
             IN  Err(Error("validate", Get(reasons[k]), derive_traits[k].span))

validate_integer_derive_traits(derive_traits, has_validation_) ==
    FirstRejection(derive_traits,
        [k \in 1..Len(derive_traits) |->
            IF derive_traits[k].item = "Arithmetic" /\ has_validation_
            THEN Some(ValidationPresent) ELSE None])

\* Floats also forbid the ordering trait whenever a validator could admit a
\* non-comparable value: validators are present and none of them is "finite".
validate_float_derive_traits(derive_traits, guard) ==
    FirstRejection(derive_traits,
        [k \in 1..Len(derive_traits) |->
            IF derive_traits[k].item = "Arithmetic" /\ has_validation(guard)
            THEN Some(ValidationPresent)
            ELSE IF /\ derive_traits[k].item = "Ord"
                    /\ has_validation(guard)
                    /\ "finite" \notin Range(guard.validators)
            THEN Some(FamilyIncompatible)
            ELSE None])

validate_string_derive_traits(guard, derive_traits) ==
    FirstRejection(derive_traits,
        [k \in 1..Len(derive_traits) |->
            IF derive_traits[k].item = "Arithmetic" /\ has_validation(guard)
            THEN Some(ValidationPresent) ELSE None])

-----------------------------------------------------------------------------
(* Code Generator: the generated wrapper type, as the items it holds *)

gen_nutype(g) ==
    [doc_attrs |-> g.doc_attrs,
     vis |-> g.vis,
     type_name |-> g.type_name,
     inner |-> g.tp,
     guard |-> g.guard,
     error_variants |-> Range(g.guard.validators),
     constructors |-> IF g.new_unchecked THEN {"new", "new_unchecked"} ELSE {"new"},
     impls |-> g.traits,
     default |-> g.maybe_default_value]

-----------------------------------------------------------------------------
(* The generated type in use: its constructors and its Default impl *)

ApplySanitizer(name, v) ==
    CASE name = "halve" -> v \div 2
      [] name = "bump" -> IF v < MaxValue THEN v + 1 ELSE v

\* Values holds finite numbers only, so "finite" accepts each of them.
Accepts(name, v) ==
    CASE name = "positive" -> v > 0
      [] name = "even" -> v % 2 = 0
      [] name = "finite" -> TRUE

RECURSIVE sanitize_all(_, _)
sanitize_all(sanitizers, v) ==
    IF sanitizers = << >> THEN v
    ELSE sanitize_all(Tail(sanitizers), ApplySanitizer(Head(sanitizers), v))

RECURSIVE validate_all(_, _)
validate_all(validators, v) ==
    IF validators = << >> THEN None
    ELSE IF ~Accepts(Head(validators), v) THEN Some(Head(validators))
    ELSE validate_all(Tail(validators), v)

\* The checked constructor: sanitize, then validate the sanitized value.
checked_new(artifact, input) ==
    LET sanitized == sanitize_all(artifact.guard.sanitizers, input)
        failed == validate_all(artifact.guard.validators, sanitized)
    IN  IF failed = None THEN Ok(sanitized) ELSE Err(Get(failed))

\* The unchecked constructor stores its input as it is.
unchecked_new(artifact, input) == Ok(input)

\* The Default impl wraps the author's default expression, not re-validated.
default_impl(artifact) == Ok(Get(artifact.default))

-----------------------------------------------------------------------------
(* lib.rs: the `?` operator, the dispatch, the calls of each stage *)

\* `r?`: continue at `next` with the value, or return the error to the caller.
Try(r, next) == IF r.ok THEN next ELSE "return"

\* The dispatch, had the U16 arm instantiated the pipeline over u32.
DispatchTarget_WrongWidth(inner_type) ==
    CASE inner_type.kind = "String" -> [family |-> "string", T |-> "String"]
      [] inner_type.kind = "Integer" ->
            [family |-> "integer",
             T |-> CASE inner_type.tp = "U8" -> "u8"
                     [] inner_type.tp = "U16" -> "u32"
                     [] inner_type.tp = "U32" -> "u32"
                     [] inner_type.tp = "U64" -> "u64"
                     [] inner_type.tp = "U128" -> "u128"
                     [] inner_type.tp = "Usize" -> "usize"
                     [] inner_type.tp = "I8" -> "i8"
                     [] inner_type.tp = "I16" -> "i16"
                     [] inner_type.tp = "I32" -> "i32"
                     [] inner_type.tp = "I64" -> "i64"
                     [] inner_type.tp = "I128" -> "i128"
                     [] inner_type.tp = "Isize" -> "isize"]
      [] inner_type.kind = "Float" ->
            [family |-> "float",
             T |-> CASE inner_type.tp = "F32" -> "f32"
                     [] inner_type.tp = "F64" -> "f64"]

\* expand_nutype's match over inner_type: the family pipeline and primitive T.
DispatchTarget(inner_type) ==
    CASE inner_type.kind = "String" -> [family |-> "string", T |-> "String"]
      [] inner_type.kind = "Integer" ->
            [family |-> "integer",
             T |-> CASE inner_type.tp = "U8" -> "u8"
                     [] inner_type.tp = "U16" -> "u16"
                     [] inner_type.tp = "U32" -> "u32"
                     [] inner_type.tp = "U64" -> "u64"
                     [] inner_type.tp = "U128" -> "u128"
                     [] inner_type.tp = "Usize" -> "usize"
                     [] inner_type.tp = "I8" -> "i8"
                     [] inner_type.tp = "I16" -> "i16"
                     [] inner_type.tp = "I32" -> "i32"
                     [] inner_type.tp = "I64" -> "i64"
                     [] inner_type.tp = "I128" -> "i128"
                     [] inner_type.tp = "Isize" -> "isize"]
      [] inner_type.kind = "Float" ->
            [family |-> "float",
             T |-> CASE inner_type.tp = "F32" -> "f32"
                     [] inner_type.tp = "F64" -> "f64"]

\* NumberParams { doc_attrs, vis, tp, type_name, attrs, derive_traits }; the
\* string pipeline is handed the same values as arguments, without a tp.
NumberParams(m, a) ==
    [doc_attrs |-> m.doc_attrs,
     vis |-> m.vis,
     tp |-> IF m.inner_type.kind = "String" THEN "String" ELSE m.inner_type.tp,
     type_name |-> m.type_name,
     attrs |-> a,
     derive_traits |-> m.derive_traits]

\* Self::validate(&guard, derive_traits)
ExpandValidateCall(p, a) == validate_string_derive_traits(a.guard, p.derive_traits)

\* The integer validator's call, had it also been shown the default expression.
IntegerValidateCall_ChecksDefault(p, a) ==
    IF /\ \E k \in 1..Len(p.derive_traits) : p.derive_traits[k].item = "Default"
       /\ a.maybe_default_value = None
    THEN Err(Error("validate", MissingDefault, 0))
    ELSE validate_integer_derive_traits(p.derive_traits, has_validation(a.guard))

\* validate_integer_derive_traits(derive_traits, guard.has_validation())
IntegerValidateCall(p, a) ==
    validate_integer_derive_traits(p.derive_traits, has_validation(a.guard))

\* The float validator's call, had it been given only the sanitizers.
FloatValidateCall_SanitizersAsValidation(p, a) ==
    validate_float_derive_traits(p.derive_traits,
                                 Guard(a.guard.sanitizers, a.guard.sanitizers))

\* validate_float_derive_traits(derive_traits, &guard)
FloatValidateCall(p, a) == validate_float_derive_traits(p.derive_traits, a.guard)

\* GenerateParams, had the validators of the Guard not been handed on.
ExpandGenerateParams_ValidatorsLost(p, a, t) ==
    [doc_attrs |-> p.doc_attrs,
     traits |-> t,
     vis |-> p.vis,
     tp |-> p.tp,
     type_name |-> p.type_name,
     guard |-> Guard(a.guard.sanitizers, << >>),
     new_unchecked |-> a.new_unchecked,
     maybe_default_value |-> a.maybe_default_value]

\* GenerateParams { doc_attrs, traits, vis, type_name, guard, new_unchecked,
\* maybe_default_value }
ExpandGenerateParams(p, a, t) ==
    [doc_attrs |-> p.doc_attrs,
     traits |-> t,
     vis |-> p.vis,
     tp |-> p.tp,
     type_name |-> p.type_name,
     guard |-> a.guard,
     new_unchecked |-> a.new_unchecked,
     maybe_default_value |-> a.maybe_default_value]

\* The integer generator's arguments, had new_unchecked not been passed on.
IntegerGenerateArgs_UncheckedOff(p, a, t) ==
    [doc_attrs |-> p.doc_attrs,
     vis |-> p.vis,
     tp |-> p.tp,
     type_name |-> p.type_name,
     guard |-> a.guard,
     traits |-> t,
     new_unchecked |-> FALSE,
     maybe_default_value |-> a.maybe_default_value]

\* gen_nutype_for_integer(doc_attrs, vis, tp, &type_name, guard, traits,
\* new_unchecked, maybe_default_value)
IntegerGenerateArgs(p, a, t) ==
    [doc_attrs |-> p.doc_attrs,
     vis |-> p.vis,
     tp |-> p.tp,
     type_name |-> p.type_name,
     guard |-> a.guard,
     traits |-> t,
     new_unchecked |-> a.new_unchecked,
     maybe_default_value |-> a.maybe_default_value]

\* The float generator's arguments, had new_unchecked always been on.
FloatGenerateArgs_UncheckedOn(p, a, t) ==
    [doc_attrs |-> p.doc_attrs,
     vis |-> p.vis,
     tp |-> p.tp,
     type_name |-> p.type_name,
     guard |-> a.guard,
     traits |-> t,
     new_unchecked |-> TRUE,
     maybe_default_value |-> a.maybe_default_value]

\* gen_nutype_for_float(doc_attrs, vis, tp, &type_name, guard, traits,
\* new_unchecked, maybe_default_value)
FloatGenerateArgs(p, a, t) ==
    [doc_attrs |-> p.doc_attrs,
     vis |-> p.vis,
     tp |-> p.tp,
     type_name |-> p.type_name,
     guard |-> a.guard,
     traits |-> t,
     new_unchecked |-> a.new_unchecked,
     maybe_default_value |-> a.maybe_default_value]

\* The macro's output, had an error been replaced by an empty token stream.
nutype_output_ErrorSwallowed(r) ==
    IF r.ok
    THEN << [kind |-> "artifact", tokens |-> r.val] >>
    ELSE << >>

\* nutype: expand_nutype(..).unwrap_or_else(|e| to_compile_error(&e)).into()
nutype_output(r) ==
    IF r.ok
    THEN << [kind |-> "artifact", tokens |-> r.val] >>
    ELSE << [kind |-> "compile_error", error |-> r.err] >>

-----------------------------------------------------------------------------
(* Actions: one per step of an invocation i of the macro *)

Family(i) == Get(pipeline[i]).family

\* let NewtypeMeta { .. } = parse_meta(type_definition)?;
ParseMeta(i) ==
    /\ pc[i] = "parse_meta"
    /\ LET r == parse_meta(type_definition[i])
       IN  /\ pc' = [pc EXCEPT ![i] = Try(r, "dispatch")]
           /\ meta' = [meta EXCEPT ![i] = IF r.ok THEN Some(r.val) ELSE None]
           /\ result' = [result EXCEPT ![i] = IF r.ok THEN None ELSE Some(Err(r.err))]
    /\ UNCHANGED <<type_definition, attrs, pipeline, params, attributes, traits,
                   gen_input, emitted, ran, constructed>>

\* match inner_type { .. }: the call of the family pipeline
Dispatch(i) ==
    /\ pc[i] = "dispatch"
    /\ pipeline' = [pipeline EXCEPT ![i] = Some(DispatchTarget(Get(meta[i]).inner_type))]
    /\ params' = [params EXCEPT ![i] = Some(NumberParams(Get(meta[i]), attrs[i]))]
    /\ pc' = [pc EXCEPT ![i] = "parse_attributes"]
    /\ UNCHANGED <<type_definition, attrs, meta, attributes, traits, gen_input,
                   result, emitted, ran, constructed>>

\* The parse stage of a family pipeline returned r.
ParseStage(i, r) ==
    /\ attributes' = [attributes EXCEPT ![i] = Some(r)]
    /\ ran' = [ran EXCEPT ![i] = Append(@, "parse_attributes")]
    /\ pc' = [pc EXCEPT ![i] = Try(r, "validate")]
    /\ result' = [result EXCEPT ![i] = IF r.ok THEN None ELSE Some(Err(r.err))]
    /\ UNCHANGED <<type_definition, attrs, meta, pipeline, params, traits,
                   gen_input, emitted, constructed>>

\* Newtype::expand: Self::parse_attributes(attrs)?
ExpandParse(i) ==
    /\ pc[i] = "parse_attributes"
    /\ Family(i) = "string"
    /\ ParseStage(i, parse_attributes("string", Get(pipeline[i]).T, Get(params[i]).attrs))

\* parse_integer_attrs_and_gen: integer::parse::parse_attributes::<T>(attrs)?
IntegerParse(i) ==
    /\ pc[i] = "parse_attributes"
    /\ Family(i) = "integer"
    /\ ParseStage(i, parse_attributes("integer", Get(pipeline[i]).T, Get(params[i]).attrs))

\* parse_float_attrs_and_gen: float::parse::parse_attributes::<T>(attrs)?
FloatParse(i) ==
    /\ pc[i] = "parse_attributes"
    /\ Family(i) = "float"
    /\ ParseStage(i, parse_attributes("float", Get(pipeline[i]).T, Get(params[i]).attrs))

\* The validate stage, had its error not ended the expansion.
ValidateStage_NoShortCircuit(i, r) ==
    /\ traits' = [traits EXCEPT ![i] = Some(r)]
    /\ ran' = [ran EXCEPT ![i] = Append(@, "validate")]
    /\ pc' = [pc EXCEPT ![i] = "generate"]
    /\ result' = [result EXCEPT ![i] = None]
    /\ UNCHANGED <<type_definition, attrs, meta, pipeline, params, attributes,
                   gen_input, emitted, constructed>>

\* The validate stage of a family pipeline returned r.
ValidateStage(i, r) ==
    /\ traits' = [traits EXCEPT ![i] = Some(r)]
    /\ ran' = [ran EXCEPT ![i] = Append(@, "validate")]
    /\ pc' = [pc EXCEPT ![i] = Try(r, "generate")]
    /\ result' = [result EXCEPT ![i] = IF r.ok THEN None ELSE Some(Err(r.err))]
    /\ UNCHANGED <<type_definition, attrs, meta, pipeline, params, attributes,
                   gen_input, emitted, constructed>>

\* Newtype::expand: Self::validate(&guard, derive_traits)?
ExpandValidate(i) ==
    /\ pc[i] = "validate"
    /\ Family(i) = "string"
    /\ ValidateStage(i, ExpandValidateCall(Get(params[i]), Get(attributes[i]).val))

\* parse_integer_attrs_and_gen: validate_integer_derive_traits(..)?
IntegerValidate(i) ==
    /\ pc[i] = "validate"
    /\ Family(i) = "integer"
    /\ ValidateStage(i, IntegerValidateCall(Get(params[i]), Get(attributes[i]).val))

\* parse_float_attrs_and_gen: validate_float_derive_traits(..)?
FloatValidate(i) ==
    /\ pc[i] = "validate"
    /\ Family(i) = "float"
    /\ ValidateStage(i, FloatValidateCall(Get(params[i]), Get(attributes[i]).val))

\* The generate stage of a family pipeline was called with g: Ok(generated).
GenerateStage(i, g) ==
    /\ gen_input' = [gen_input EXCEPT ![i] = Some(g)]
    /\ ran' = [ran EXCEPT ![i] = Append(@, "generate")]
    /\ result' = [result EXCEPT ![i] = Some(Ok(gen_nutype(g)))]
    /\ pc' = [pc EXCEPT ![i] = "return"]
    /\ UNCHANGED <<type_definition, attrs, meta, pipeline, params, attributes,
                   traits, emitted, constructed>>

\* Newtype::expand: Ok(Self::generate(GenerateParams { .. }))
ExpandGenerate(i) ==
    /\ pc[i] = "generate"
    /\ Family(i) = "string"
    /\ GenerateStage(i, ExpandGenerateParams(Get(params[i]), Get(attributes[i]).val,
                                             Get(traits[i]).val))

\* parse_integer_attrs_and_gen: Ok(integer::gen::gen_nutype_for_integer(..))
IntegerGenerate(i) ==
    /\ pc[i] = "generate"
    /\ Family(i) = "integer"
    /\ GenerateStage(i, IntegerGenerateArgs(Get(params[i]), Get(attributes[i]).val,
                                            Get(traits[i]).val))

\* parse_float_attrs_and_gen: Ok(float::gen::gen_nutype_for_float(..))
FloatGenerate(i) ==
    /\ pc[i] = "generate"
    /\ Family(i) = "float"
    /\ GenerateStage(i, FloatGenerateArgs(Get(params[i]), Get(attributes[i]).val,
                                          Get(traits[i]).val))

\* The macro's return, had it kept a registry of the type names it generated
\* and emitted nothing for a name already in it.
Return_Registry(i) ==
    /\ pc[i] = "return"
    /\ emitted' = [emitted EXCEPT ![i] =
                      IF \E j \in DOMAIN pc \ {i} :
                            /\ pc[j] = "done"
                            /\ type_definition[j].type_name = type_definition[i].type_name
                      THEN @
                      ELSE @ \o nutype_output(Get(result[i]))]
    /\ pc' = [pc EXCEPT ![i] = "done"]
    /\ UNCHANGED <<type_definition, attrs, meta, pipeline, params, attributes,
                   traits, gen_input, result, ran, constructed>>

\* nutype: the result of expand_nutype becomes the macro's output.
Return(i) ==
    /\ pc[i] = "return"
    /\ emitted' = [emitted EXCEPT ![i] = @ \o nutype_output(Get(result[i]))]
    /\ pc' = [pc EXCEPT ![i] = "done"]
    /\ UNCHANGED <<type_definition, attrs, meta, pipeline, params, attributes,
                   traits, gen_input, result, ran, constructed>>

\* The artifact invocation i emitted, once it emitted one.
HasArtifact(i) == pc[i] = "done" /\ Get(result[i]).ok
Artifact(i) == Get(result[i]).val

Constructed(i, via, input, r) ==
    /\ constructed' = [constructed EXCEPT ![i] =
                          Some([via |-> via, input |-> input, outcome |-> r])]
    /\ UNCHANGED <<type_definition, attrs, pc, meta, pipeline, params, attributes,
                   traits, gen_input, result, emitted, ran>>

\* A caller of the generated type calls its checked constructor.
CallNew(i) ==
    /\ HasArtifact(i)
    /\ \E input \in Values : Constructed(i, "new", input, checked_new(Artifact(i), input))

\* A caller calls the unchecked constructor, where one was generated.
CallNewUnchecked(i) ==
    /\ HasArtifact(i)
    /\ "new_unchecked" \in Artifact(i).constructors
    /\ \E input \in Values :
          Constructed(i, "new_unchecked", input, unchecked_new(Artifact(i), input))

\* A caller asks for the default value, where the impl has an expression to use.
CallDefault(i) ==
    /\ HasArtifact(i)
    /\ "Default" \in Artifact(i).impls
    /\ IsSome(Artifact(i).default)
    /\ Constructed(i, "default", 0, default_impl(Artifact(i)))

-----------------------------------------------------------------------------
(* Inputs *)

Headers ==
    {[doc_attrs |-> << >>, vis |-> "private", type_name |-> "Age"],
     [doc_attrs |-> << "/// An email" >>, vis |-> "pub", type_name |-> "Email"]}

TypeDefinition(h, id, derive) ==
    [doc_attrs |-> h.doc_attrs, vis |-> h.vis, type_name |-> h.type_name,
     inner_ident |-> id, derive |-> derive]

AttrStream(s, v, d, n, u) ==
    [sanitize |-> s, validate |-> v, default |-> d, new_unchecked |-> n, unknown |-> u]

\* Every supported declaration with up to MaxDerive requested traits, and one
\* declaration over an unsupported inner type.
TypeDefinitions ==
    {TypeDefinition(h, id, d) :
        h \in Headers, id \in SupportedIdents, d \in SeqsUpTo(DeriveTrait, MaxDerive)}
    \cup {TypeDefinition(CHOOSE h \in Headers : h.vis = "pub", "bool", << >>)}

BasicGuards ==
    {Guard(<< >>, << >>), Guard(<< "halve" >>, << >>),
     Guard(<< >>, << "positive" >>), Guard(<< "bump" >>, << "positive", "finite" >>)}

\* The well-formed configurations over BasicGuards, and two malformed ones.
AttrStreams ==
    {AttrStream(g.sanitizers, g.validators, d, n, FALSE) :
        g \in BasicGuards, d \in {None, Some(0)}, n \in {0, 1}}
    \cup {AttrStream(<< >>, << >>, None, 2, FALSE), AttrStream(<< >>, << >>, None, 0, TRUE)}

InitOver(Invocations, tds, ats) ==
    /\ type_definition \in [Invocations -> tds]
    /\ attrs \in [Invocations -> ats]
    /\ pc = [i \in Invocations |-> "parse_meta"]
    /\ meta = [i \in Invocations |-> None]
    /\ pipeline = [i \in Invocations |-> None]
    /\ params = [i \in Invocations |-> None]
    /\ attributes = [i \in Invocations |-> None]
    /\ traits = [i \in Invocations |-> None]
    /\ gen_input = [i \in Invocations |-> None]
    /\ result = [i \in Invocations |-> None]
    /\ emitted = [i \in Invocations |-> << >>]
    /\ ran = [i \in Invocations |-> << >>]
    /\ constructed = [i \in Invocations |-> None]

(* One invocation of the macro, over every declaration and configuration. *)
Init == InitOver({1}, TypeDefinitions, AttrStreams)

Next ==
    \/ \E i \in DOMAIN pc : ParseMeta(i)
    \/ \E i \in DOMAIN pc : Dispatch(i)
    \/ \E i \in DOMAIN pc : ExpandParse(i)
    \/ \E i \in DOMAIN pc : IntegerParse(i)
    \/ \E i \in DOMAIN pc : FloatParse(i)
    \/ \E i \in DOMAIN pc : ExpandValidate(i)
    \/ \E i \in DOMAIN pc : IntegerValidate(i)
    \/ \E i \in DOMAIN pc : FloatValidate(i)
    \/ \E i \in DOMAIN pc : ExpandGenerate(i)
    \/ \E i \in DOMAIN pc : IntegerGenerate(i)
    \/ \E i \in DOMAIN pc : FloatGenerate(i)
    \/ \E i \in DOMAIN pc : Return(i)

Spec == Init /\ [][Next]_vars

(* The same, with the progress a synchronous function call makes. *)
LiveSpec == Init /\ [][Next]_vars /\ WF_vars(Next)

-----------------------------------------------------------------------------
(* Two invocations of the macro, their steps interleaved. *)

PairHeader == CHOOSE h \in Headers : h.vis = "pub"

PairTypeDefinitions ==
    {TypeDefinition(PairHeader, id, d) :
        id \in {"String", "u8", "f32"},
        d \in {<< "Ord" >>, << "Default", "Arithmetic" >>}}

PairAttrStreams ==
    {AttrStream(g.sanitizers, g.validators, dn[1], dn[2], FALSE) :
        g \in {Guard(<< >>, << >>), Guard(<< "halve" >>, << >>),
               Guard(<< >>, << "positive" >>)},
        dn \in {<<None, 0>>, <<Some(0), 1>>}}

PairInit == InitOver({1, 2}, PairTypeDefinitions, PairAttrStreams)

PairSpec == PairInit /\ [][Next]_vars

-----------------------------------------------------------------------------
(* One invocation over every Guard up to the bounds, and then the          *)
(* generated type in use.                                                  *)

RunTypeDefinitions ==
    {TypeDefinition(PairHeader, id, d) :
        id \in {"String", "i32", "f64"}, d \in {<< >>, << "Default" >>}}

RunAttrStreams ==
    {AttrStream(s, v, d, n, FALSE) :
        s \in SeqsUpTo(SanitizerNames, MaxSanitizers),
        v \in SeqsUpTo({"positive", "even"}, MaxValidators),
        d \in {None, Some(0)},
        n \in {0, 1}}

RunInit == InitOver({1}, RunTypeDefinitions, RunAttrStreams)

RunNext ==
    \/ Next
    \/ \E i \in DOMAIN pc : CallNew(i)
    \/ \E i \in DOMAIN pc : CallNewUnchecked(i)
    \/ \E i \in DOMAIN pc : CallDefault(i)

RunSpec == RunInit /\ [][RunNext]_vars

-----------------------------------------------------------------------------
(* Properties *)

Invocations == DOMAIN pc

Failed(o) == IsSome(o) /\ ~Get(o).ok
Succeeded(o) == IsSome(o) /\ Get(o).ok

Requested(i) == {Get(params[i]).derive_traits[k].item :
                    k \in 1..Len(Get(params[i]).derive_traits)}

StageOrder == << "parse_attributes", "validate", "generate" >>

(* C1: in every family the stages run in the order parse-attributes,       *)
(* validate-traits, generate, each at most once; an error of attribute     *)
(* parsing leaves validation and generation unrun, an error of trait       *)
(* validation leaves generation unrun, and the expansion returns exactly   *)
(* that error.                                                             *)
C1_StagesInOrderFirstErrorReturned ==
    \A i \in Invocations :
        /\ \E k \in 0..Len(StageOrder) : ran[i] = SubSeq(StageOrder, 1, k)
        /\ Failed(attributes[i]) =>
              /\ pc[i] \in {"return", "done"}
              /\ ran[i] = << "parse_attributes" >>
              /\ traits[i] = None
              /\ gen_input[i] = None
              /\ result[i] = Some(Err(Get(attributes[i]).err))
        /\ Failed(traits[i]) =>
              /\ pc[i] \in {"return", "done"}
              /\ ran[i] = << "parse_attributes", "validate" >>
              /\ gen_input[i] = None
              /\ result[i] = Some(Err(Get(traits[i]).err))
        /\ IsSome(traits[i]) => Succeeded(attributes[i])
        /\ IsSome(gen_input[i]) => Succeeded(traits[i])

C1_Witness ==
    \E i \in Invocations :
        /\ pc[i] = "done"
        /\ Failed(traits[i])
        /\ Family(i) = "integer"

\* What a width names, and what a primitive is: signedness and size in bits
\* (0 for the pointer-sized ones, which have no fixed size).
WidthShape(tp) ==
    [signed |-> tp \in {"I8", "I16", "I32", "I64", "I128", "Isize"},
     float |-> tp \in FloatInnerType,
     bits |-> CASE tp \in {"U8", "I8"} -> 8
                [] tp \in {"U16", "I16"} -> 16
                [] tp \in {"U32", "I32", "F32"} -> 32
                [] tp \in {"U64", "I64", "F64"} -> 64
                [] tp \in {"U128", "I128"} -> 128
                [] tp \in {"Usize", "Isize"} -> 0]

PrimitiveShape(T) ==
    [signed |-> T \in {"i8", "i16", "i32", "i64", "i128", "isize"},
     float |-> T \in {"f32", "f64"},
     bits |-> CASE T \in {"u8", "i8"} -> 8
                [] T \in {"u16", "i16"} -> 16
                [] T \in {"u32", "i32", "f32"} -> 32
                [] T \in {"u64", "i64", "f64"} -> 64
                [] T \in {"u128", "i128"} -> 128
                [] T \in {"usize", "isize"} -> 0]

(* C2: every NewtypeMeta is routed to exactly the pipeline of its          *)
(* InnerType: String to the string pipeline, Integer(w) to the integer     *)
(* pipeline over the primitive of width w, Float(w) to the float pipeline  *)
(* over f32 or f64; none is left unrouted, and only the routed family's    *)
(* stages run.                                                             *)
C2_RoutedByInnerType ==
    \A i \in Invocations :
        /\ (IsSome(meta[i]) /\ pc[i] # "dispatch") => IsSome(pipeline[i])
        /\ IsSome(pipeline[i]) =>
              LET inner == Get(meta[i]).inner_type
                  to == Get(pipeline[i])
              IN  /\ inner \in InnerType
                  /\ inner.kind = "String" => to = [family |-> "string", T |-> "String"]
                  /\ inner.kind = "Integer" =>
                        /\ to.family = "integer"
                        /\ PrimitiveShape(to.T) = WidthShape(inner.tp)
                        /\ ~PrimitiveShape(to.T).float
                  /\ inner.kind = "Float" =>
                        /\ to.family = "float"
                        /\ PrimitiveShape(to.T) = WidthShape(inner.tp)
                        /\ PrimitiveShape(to.T).float
                  /\ to.T = type_definition[i].inner_ident
                  /\ IsSome(attributes[i]) =>
                        \/ Failed(attributes[i])
                        \/ ("finite" \in Range(Get(attributes[i]).val.guard.validators)
                               => inner.kind = "Float")

C2_Witness ==
    \E i \in Invocations :
        /\ pc[i] = "done"
        /\ Succeeded(result[i])
        /\ Get(meta[i]).inner_type = [kind |-> "Integer", tp |-> "U16"]
        /\ Get(pipeline[i]) = [family |-> "integer", T |-> "u16"]

(* C3: requesting the default trait without a default expression makes     *)
(* trait validation fail with the "missing default" reason, so that        *)
(* generation is never reached.                                            *)
C3_MissingDefaultRejected ==
    \A i \in Invocations :
        ( /\ IsSome(traits[i])
          /\ "Default" \in Requested(i)
          /\ Get(attributes[i]).val.maybe_default_value = None )
        => /\ Failed(traits[i])
           /\ Get(traits[i]).err.reason = MissingDefault
           /\ gen_input[i] = None

Position(i, t) ==
    Min({k \in 1..Len(Get(params[i]).derive_traits) :
            Get(params[i]).derive_traits[k].item = t})

ValidatedWith(i, t) ==
    /\ IsSome(traits[i])
    /\ t \in Requested(i)

GuardOf(i) == Get(attributes[i]).val.guard

FirstError(i) ==
    IF meta[i] = None THEN parse_meta(type_definition[i]).err
    ELSE IF Failed(attributes[i]) THEN Get(attributes[i]).err
    ELSE Get(traits[i]).err

ErrorCount(i) ==
    (IF meta[i] = None THEN 1 ELSE 0)
    + (IF Failed(attributes[i]) THEN 1 ELSE 0)
    + (IF Failed(traits[i]) THEN 1 ELSE 0)

OutputBoundary(i) ==
    /\ pc[i] # "done" => emitted[i] = << >>
    /\ pc[i] = "done" =>
          /\ Len(emitted[i]) = 1
          /\ ErrorCount(i) <= 1
          /\ IF IsSome(gen_input[i])
             THEN /\ emitted[i][1].kind = "artifact"
                  /\ emitted[i][1].tokens = gen_nutype(Get(gen_input[i]))
                  /\ ran[i] = StageOrder
             ELSE /\ emitted[i][1].kind = "compile_error"
                  /\ emitted[i][1].error = FirstError(i)
          /\ meta[i] = None =>
                /\ ran[i] = << >>
                /\ pipeline[i] = None
                /\ emitted[i][1].kind = "compile_error"
                /\ emitted[i][1].error.stage = "parse_meta"

(* C7: every invocation terminates, and with exactly one outcome: the      *)
(* whole generated artifact, or one diagnostic built from the one error    *)
(* that aborted the pipeline (parse_meta's included, which aborts before   *)
(* any family pipeline starts); nothing is emitted before that, never      *)
(* both, never more than one error.                                        *)
C7_TerminatesWithOneOutcome ==
    /\ <>(\A i \in Invocations : pc[i] = "done")
    /\ [](\A i \in Invocations : OutputBoundary(i))

C7_Witness ==
    \E i \in Invocations :
        /\ pc[i] = "done"
        /\ meta[i] = None
        /\ emitted[i] = << [kind |-> "compile_error",
                            error |-> Error("parse_meta", "unsupported inner type", 0)] >>

GeneratorReceives(i) ==
    /\ IsSome(params[i]) =>
          /\ Get(params[i]).doc_attrs = Get(meta[i]).doc_attrs
          /\ Get(params[i]).vis = Get(meta[i]).vis
          /\ Get(params[i]).type_name = Get(meta[i]).type_name
          /\ Get(params[i]).derive_traits = Get(meta[i]).derive_traits
    /\ IsSome(gen_input[i]) =>
          LET g == Get(gen_input[i])
              m == Get(meta[i])
              a == Get(attributes[i]).val
          IN  /\ g.doc_attrs = m.doc_attrs
              /\ g.vis = m.vis
              /\ g.type_name = m.type_name
              /\ g.guard = a.guard
              /\ g.new_unchecked = a.new_unchecked
              /\ g.maybe_default_value = a.maybe_default_value
              /\ g.traits = Get(traits[i]).val

\* What a stage returned or was given stays as it was in every later step.
FrameStep ==
    \A i \in Invocations :
        /\ IsSome(meta[i]) => meta'[i] = meta[i]
        /\ IsSome(params[i]) => params'[i] = params[i]
        /\ IsSome(attributes[i]) => attributes'[i] = attributes[i]
        /\ IsSome(traits[i]) => traits'[i] = traits[i]

(* C9: each stage leaves the data it does not own unchanged, so that the   *)
(* generator receives exactly the doc comments, visibility and type name   *)
(* of the NewtypeMeta, exactly the Guard, new_unchecked and                *)
(* maybe_default_value the parser returned, and exactly the trait set the  *)
(* validator returned.                                                     *)
C9_StagesFrameTheirInputs ==
    /\ [][FrameStep]_vars
    /\ [](\A i \in Invocations : GeneratorReceives(i))

C9_Witness ==
    \E i \in Invocations :
        /\ IsSome(gen_input[i])
        /\ Family(i) = "integer"
        /\ Get(gen_input[i]).new_unchecked
        /\ Get(gen_input[i]).maybe_default_value # None
        /\ Get(gen_input[i]).guard.validators # << >>
        /\ Get(gen_input[i]).traits = {"Ord", "Default"}
        /\ Get(gen_input[i]).vis = "pub"

\* The value after the first k sanitizers of g, in declaration order.
SanitizedThrough(g, input) ==
    LET through[k \in 0..Len(g.sanitizers)] ==
            IF k = 0 THEN input ELSE ApplySanitizer(g.sanitizers[k], through[k - 1])
    IN  through[Len(g.sanitizers)]

Rejecting(g, v) == {k \in 1..Len(g.validators) : ~Accepts(g.validators[k], v)}

(* C5: the checked constructor applies every sanitizer of the Guard in     *)
(* declaration order, then every validator in declaration order to the     *)
(* sanitized value: it returns the wrapper over the fully sanitized value  *)
(* when every validator accepts it, and otherwise the error variant of the *)
(* first validator that rejects it and no wrapper; with no validators it   *)
(* always succeeds.                                                        *)
C5_CheckedConstructorSound ==
    \A i \in Invocations :
        (IsSome(constructed[i]) /\ Get(constructed[i]).via = "new") =>
            LET c == Get(constructed[i])
                g == GuardOf(i)
                v == SanitizedThrough(g, c.input)
            IN  /\ Artifact(i).error_variants = Range(g.validators)
                /\ IF Rejecting(g, v) = {}
                   THEN c.outcome.ok /\ c.outcome.val = v
                   ELSE /\ ~c.outcome.ok
                        /\ c.outcome.err = g.validators[Min(Rejecting(g, v))]
                /\ g.validators = << >> => c.outcome.ok

C5_Witness ==
    \E i \in Invocations :
        /\ IsSome(constructed[i])
        /\ Get(constructed[i]).via = "new"
        /\ GuardOf(i) = Guard(<< "bump", "halve" >>, << "positive", "even" >>)
        /\ Get(constructed[i]).input = 3
        /\ Get(constructed[i]).outcome = Err("even")

UncheckedRequested(i) == Get(attributes[i]).val.new_unchecked

PassedGuard(i, v) == \A k \in 1..Len(GuardOf(i).validators) :
                        Accepts(GuardOf(i).validators[k], v)

UncheckedBypass(i) ==
    UncheckedRequested(i) =>
        /\ "new_unchecked" \in Artifact(i).constructors
        /\ (IsSome(constructed[i]) /\ Get(constructed[i]).via = "new_unchecked") =>
              Get(constructed[i]).outcome = Ok(Get(constructed[i]).input)

Expansion(td, a) ==
    LET m == parse_meta(td)
    IN  IF ~m.ok THEN Err(m.err)
        ELSE
        LET to == DispatchTarget(m.val.inner_type)
            p == NumberParams(m.val, a)
            r == parse_attributes(to.family, to.T, p.attrs)
        IN  IF ~r.ok THEN Err(r.err)
            ELSE
            LET v == CASE to.family = "string" -> ExpandValidateCall(p, r.val)
                       [] to.family = "integer" -> IntegerValidateCall(p, r.val)
                       [] to.family = "float" -> FloatValidateCall(p, r.val)
            IN  IF ~v.ok THEN Err(v.err)
                ELSE Ok(gen_nutype(
                        CASE to.family = "string" -> ExpandGenerateParams(p, r.val, v.val)
                          [] to.family = "integer" -> IntegerGenerateArgs(p, r.val, v.val)
                          [] to.family = "float" -> FloatGenerateArgs(p, r.val, v.val)))

SameInputs(i, j) ==
    /\ type_definition[i] = type_definition[j]
    /\ attrs[i] = attrs[j]

SameRequest(i, j) ==
    /\ IsSome(traits[i])
    /\ IsSome(traits[j])
    /\ Family(i) = Family(j)
    /\ Get(params[i]).derive_traits = Get(params[j]).derive_traits

(* C10: the outcome of trait validation does not depend on new_unchecked   *)
(* or on maybe_default_value: the same requested traits and Guard get the  *)
(* same outcome in every family, and in the integer family so do two       *)
(* Guards of the same has_validation().                                    *)
C10_ValidationIgnoresUncheckedAndDefault ==
    \A i, j \in Invocations :
        SameRequest(i, j) =>
            /\ GuardOf(i) = GuardOf(j) => traits[i] = traits[j]
            /\ ( /\ Family(i) = "integer"
                 /\ has_validation(GuardOf(i)) = has_validation(GuardOf(j)) )
               => traits[i] = traits[j]

C10_Witness ==
    \E i, j \in Invocations :
        /\ SameRequest(i, j)
        /\ Family(i) = "integer"
        /\ "Default" \in Requested(i)
        /\ GuardOf(i) # GuardOf(j)
        /\ has_validation(GuardOf(i)) = has_validation(GuardOf(j))
        /\ Get(attributes[i]).val.maybe_default_value = None
        /\ Get(attributes[j]).val.maybe_default_value # None
        /\ Get(attributes[i]).val.new_unchecked # Get(attributes[j]).val.new_unchecked
        /\ traits[i] = traits[j]

====
